---- MODULE Spec2Model ----
(***************************************************************************)
(* State-machine model of the financial-statement harvesting pipeline of   *)
(* scraping-eprijava.  Two variants of the same pipeline exist:            *)
(*   src/src/main.rs      (canonical: local cache, POST Details?rbr=)      *)
(*   src/src/specific.rs  (no cache lookup, GET GetStatement?id=)          *)
(* The variable `variant` selects which main() is running.  Every blocking *)
(* call of main() (file, network, sleep) is one step of the machine; `pc`  *)
(* is the position of the single thread of control.                        *)
(***************************************************************************)
EXTENDS Integers, Sequences, FiniteSets, TLC

\* ------------------------------------------------------------------ bounds
\* Number of companies in the registry (the HashMap `companies`).
NumEntities == 2
\* Largest number of statements the portal lists during one run (all
\* companies together).
MaxReports == 2
\* Largest number of environment failures (I/O errors, bad responses) in a run.
MaxFaults == 1
\* Largest number of table rows in a markup document of the extraction model.
MaxRows == 2

Entities == 1..NumEntities
\* The `Year` strings the portal lists; two values give equal and distinct years.
Years == {"2022", "2023"}

\* ------------------------------------------------------- markup documents
\* A document is the sequence of the table rows the five patterns look at.
\* A row is [aop, lead, noteEmpty, digits]:
\*   aop       the code cell ("201", "260", "001", "212"),
\*   lead      the code cell is preceded, in the same <tr>, by two <td> cells,
\*   noteEmpty the cell after the code cell is exactly <td></td>,
\*   digits    the text of the right-aligned value cell (the \d+ capture).
I64MaxDigits == <<9,2,2,3,3,7,2,0,3,6,8,5,4,7,7,5,8,0,7>>
TooBig == <<9,2,2,3,3,7,2,0,3,6,8,5,4,7,7,5,8,0,8>>
DigitStrings == { <<0>>, <<7>>, <<1,2>>, <<1,4,4,0,0,0>>, TooBig }
AopCodes == {"201", "260", "001", "212"}
Rows ==
    [aop : {"201"}, lead : BOOLEAN, noteEmpty : BOOLEAN, digits : DigitStrings]
    \cup [aop : AopCodes \ {"201"}, lead : {TRUE}, noteEmpty : BOOLEAN,
          digits : DigitStrings]
Docs == UNION { [1..n -> Rows] : n \in 0..MaxRows }

RECURSIVE StripZeros(_)
StripZeros(s) ==
    IF Len(s) > 1 /\ Head(s) = 0 THEN StripZeros(Tail(s)) ELSE s

RECURSIVE LexLeq(_, _)
LexLeq(a, b) ==
    IF Len(a) = 0 THEN TRUE
    ELSE IF Head(a) # Head(b) THEN Head(a) < Head(b)
    ELSE LexLeq(Tail(a), Tail(b))

\* The decimal text denotes a value of at most i64::MAX.
FitsI64(s) ==
    LET t == StripZeros(s)
    IN  \/ Len(t) < Len(I64MaxDigits)
        \/ Len(t) = Len(I64MaxDigits) /\ LexLeq(t, I64MaxDigits)

RECURSIVE DecimalValue(_, _)
DecimalValue(s, acc) ==
    IF Len(s) = 0 THEN acc ELSE DecimalValue(Tail(s), acc * 10 + Head(s))

\* str::parse::<i64>().ok() on a capture of ASCII digits: Some(v) is <<v>>,
\* None (overflow) is <<>>.  The digit strings of the model that fit are
\* short, so the value is exact.
ParseI64(s) == IF FitsI64(s) THEN <<DecimalValue(s, 0)>> ELSE <<>>

\* Regex::captures: the capture of the leftmost match (hits are the indices
\* of the rows the pattern matches), or NoMatch.
NoMatch == <<>>
FirstCapture(doc, hits) ==
    IF hits = {} THEN NoMatch
    ELSE doc[CHOOSE i \in hits : \A j \in hits : i <= j].digits

MatchTotalIncomeOriginal(row) == row.aop = "201" /\ row.noteEmpty
MatchTotalIncomeNew(row) == row.aop = "201" /\ row.lead
MatchProfit(row) == row.aop = "260" /\ row.noteEmpty
MatchEmployeeCount(row) == row.aop = "001" /\ row.noteEmpty
MatchNetPayCosts(row) == row.aop = "212" /\ row.noteEmpty

RE_TOTAL_INCOME_ORIGINAL(doc) == FirstCapture(doc, {i \in 1..Len(doc) : MatchTotalIncomeOriginal(doc[i])})
RE_TOTAL_INCOME_NEW(doc) == FirstCapture(doc, {i \in 1..Len(doc) : MatchTotalIncomeNew(doc[i])})
RE_PROFIT(doc) == FirstCapture(doc, {i \in 1..Len(doc) : MatchProfit(doc[i])})
RE_EMPLOYEE_COUNT(doc) == FirstCapture(doc, {i \in 1..Len(doc) : MatchEmployeeCount(doc[i])})
RE_NET_PAY_COSTS(doc) == FirstCapture(doc, {i \in 1..Len(doc) : MatchNetPayCosts(doc[i])})

\* parse_html_value: captures -> name -> parse -> unwrap_or(0).
parse_html_value(capture) ==
    IF capture = NoMatch THEN 0
    ELSE IF ParseI64(capture) = <<>> THEN 0
    ELSE ParseI64(capture)[1]

\* The total-income fallback of main(): the new pattern is tried when the
\* original pattern's value is 0.
TotalIncome(doc) ==
    LET total_income == parse_html_value(RE_TOTAL_INCOME_ORIGINAL(doc))
    IN  IF total_income = 0
        THEN parse_html_value(RE_TOTAL_INCOME_NEW(doc))
        ELSE total_income

\* A variant of AveragePay: the division by 12 is left out.
AveragePay_yearly(employee_count, net_pay_costs) ==
    IF employee_count > 0
    THEN <<net_pay_costs, employee_count>>
    ELSE <<0, 1>>

\* The metric of main(): net_pay_costs / employee_count / 12 as the exact
\* fraction <<numerator, denominator>>; 0.0 is <<0, 1>>.
AveragePay(employee_count, net_pay_costs) ==
    IF employee_count > 0
    THEN <<net_pay_costs, employee_count * 12>>
    ELSE <<0, 1>>

\* The values main() extracts from one document and puts in the CsvRecord.
ExtractFields(doc) ==
    LET employee_count == parse_html_value(RE_EMPLOYEE_COUNT(doc))
        net_pay_costs == parse_html_value(RE_NET_PAY_COSTS(doc))
    IN  [total_income |-> TotalIncome(doc),
         profit |-> parse_html_value(RE_PROFIT(doc)),
         employee_count |-> employee_count,
         net_pay_costs |-> net_pay_costs,
         average_pay |-> AveragePay(employee_count, net_pay_costs)]

\* ------------------------------------------------------------ the portal
\* Body of a statement-content response: the statement page on 2xx, an error
\* or login page (no table row at all) otherwise.
PortalDoc ==
    << [aop |-> "001", lead |-> TRUE, noteEmpty |-> TRUE, digits |-> <<1, 2>>],
       [aop |-> "212", lead |-> TRUE, noteEmpty |-> TRUE, digits |-> <<7>>] >>
ErrorPage == << >>
HttpStatuses == {200, 500}
ResponseBody(status) == IF status = 200 THEN PortalDoc ELSE ErrorPage

\* A listing is the `data` array of the envelope: statements in wire order.
\* Statement numbers are unique within a listing; they are named by position.
Rbrs == 1..MaxReports
Listings ==
    UNION { { [i \in 1..n |-> [fin_statement_number |-> i, year |-> ys[i]]] :
              ys \in [1..n -> Years] } : n \in 0..MaxReports }

\* Local file of a statement: "{company}/{pib}-{year}.html" in main.rs,
\* "{company}/{company}_{year}.html" in specific.rs: fixed by company and year.
LocalPath(e, year) == <<e, year>>
Paths == Entities \X Years
\* A path holds no file (Absent) or a file with some content (File(doc)).
Absent == << >>
File(doc) == <<doc>>
\* What an interrupted or failed fs::write can leave at the path: the file was
\* truncated and a proper prefix of the content written.
Prefixes(doc) == { SubSeq(doc, 1, k) : k \in 0..(Len(doc) - 1) }

HeaderRow == [kind |-> "header"]
NoReport == [fin_statement_number |-> 0, year |-> "none"]
NoDoc == "no document"
NoRecord == "no record"
NoFirstRun == "no first run"

VARIABLES
    variant,        \* "main" (main.rs) or "specific" (specific.rs)
    run,            \* 1: first run of the program, 2: the program run again
    again,          \* the program will be run again after this run
    first,          \* files and rows the first run left (set when run again)
    pc,             \* position of main()
    exit_err,       \* the Err main() returned ("none": still running or Ok)
    todo,           \* companies the for loop has not reached yet
    cur,            \* company of the current iteration (0: none)
    reports,        \* statements of the listing not yet iterated
    report,         \* statement of the current inner iteration
    source,         \* where report_html came from: "none", "cache", "remote"
    report_html,    \* markup of the current statement
    record,         \* the CsvRecord built for the current statement
    cache,          \* local statement files: path -> Absent or File(document)
    csv_buf,        \* rows inside the csv::Writer buffer
    csv_disk,       \* rows written to Results.csv
    faults,         \* environment failures so far
    \* ---- history of the run, read only by the properties
    listing_calls,  \* company -> number of listing requests sent
    fetch_calls,    \* <<company, rbr>> -> number of content requests sent
    slept,          \* thread::sleep ran since the last content request
    unthrottled,    \* content requests sent after another with no sleep between
    delayed,        \* statements whose iteration ran thread::sleep
    cache_hits,     \* statements whose local file existed when processed
    fetch_failed,   \* statements whose content request failed
    read_failed,    \* statements whose local file could not be read
    save_failed,    \* statements whose markup fs::write returned Err
    sink_failed,    \* statements whose CSV serialize or flush failed
    cache_writes,   \* statements whose markup fs::write was called on
    appended,       \* statements whose CSV serialize returned Ok
    mkdir_failed,   \* companies whose create_dir_all failed
    listing_bad,    \* companies whose listing response was a failure
    listed,         \* statements listed so far in the run
    listing_of      \* company -> << >> or <<the listing the portal returned>>

ctl == <<variant, run, again, first, pc, exit_err, todo, cur, reports, report, source,
         report_html, record, faults>>
disk == <<cache, csv_buf, csv_disk>>
hist == <<listing_calls, fetch_calls, slept, unthrottled, delayed, cache_hits,
          fetch_failed, read_failed, save_failed, sink_failed, cache_writes, appended, mkdir_failed,
          listing_bad, listed, listing_of>>
vars == <<ctl, disk, hist>>
ctl_but_pc == <<variant, run, again, first, exit_err, todo, cur, reports, report, source,
                report_html, record, faults>>

Statements == Entities \X Rbrs
CanFail == faults < MaxFaults
Stmt == <<cur, report.fin_statement_number>>

AllRows == csv_disk \o csv_buf
HasRow(rows, x) ==
    \E i \in 1..Len(rows) :
        /\ rows[i].kind = "record"
        /\ rows[i].name = x[1]
        /\ rows[i].rbr = x[2]
StatementsOf(e) == {x \in Statements : x[1] = e}
FinishedOk == pc = "exited" /\ exit_err = "none"

\* The company folders before the run: an earlier run saved the statement
\* pages of some set of years.
Start(variants, rerun) ==
    /\ variant \in variants
    /\ run = 1
    /\ again = rerun
    /\ first = NoFirstRun
    /\ pc = "create_csv"
    /\ exit_err = "none"
    /\ todo = Entities
    /\ cur = 0
    /\ reports = << >>
    /\ report = NoReport
    /\ source = "none"
    /\ report_html = NoDoc
    /\ record = NoRecord
    /\ \E warm \in SUBSET Years :
          cache = [p \in Paths |->
                      IF p[2] \in warm THEN File(PortalDoc) ELSE Absent]
    /\ csv_buf = << >>
    /\ csv_disk = << >>
    /\ faults = 0
    /\ listing_calls = [e \in Entities |-> 0]
    /\ fetch_calls = [x \in Statements |-> 0]
    /\ slept = FALSE
    /\ unthrottled = {}
    /\ delayed = {}
    /\ cache_hits = {}
    /\ fetch_failed = {}
    /\ read_failed = {}
    /\ save_failed = {}
    /\ sink_failed = {}
    /\ cache_writes = {}
    /\ appended = {}
    /\ mkdir_failed = {}
    /\ listing_bad = {}
    /\ listed = 0
    /\ listing_of = [e \in Entities |-> << >>]

\* One run of either program.
Init == Start({"main", "specific"}, FALSE)

\* ------------------------------------------------------- start of main()
\* main() returns Err(err): the csv::Writer is dropped on the way out.
Abort(err) ==
    /\ pc' = "drop"
    /\ exit_err' = err
    /\ faults' = faults + 1

\* File::create("./Results.csv")?
CreateCsv ==
    /\ pc = "create_csv"
    /\ \/ /\ pc' = "write_header"
          /\ csv_disk' = << >>
          /\ UNCHANGED <<exit_err, faults>>
       \/ /\ CanFail
          /\ pc' = "exited"
          /\ exit_err' = "create_csv"
          /\ faults' = faults + 1
          /\ UNCHANGED csv_disk
    /\ UNCHANGED <<variant, run, again, first, todo, cur, reports, report, source, report_html,
                   record, cache, csv_buf, hist>>

\* A variant of WriteHeader: the header is left in the writer's buffer (no
\* flush before the companies are processed).
WriteHeader_noflush ==
    /\ pc = "write_header"
    /\ \/ /\ pc' = "build_client"
          /\ csv_buf' = Append(csv_buf, HeaderRow)
          /\ UNCHANGED <<exit_err, faults>>
       \/ /\ CanFail
          /\ Abort("write_header")
          /\ csv_buf' \in {csv_buf, Append(csv_buf, HeaderRow)}
    /\ UNCHANGED <<variant, run, again, first, todo, cur, reports, report,
                   source, report_html, record, cache, csv_disk, hist>>

\* csv_writer.write_record(header)?; csv_writer.flush()?;
WriteHeader ==
    /\ pc = "write_header"
    /\ \/ /\ pc' = "build_client"
          /\ csv_disk' = Append(csv_disk, HeaderRow)
          /\ UNCHANGED <<exit_err, faults, csv_buf>>
       \/ /\ CanFail
          /\ Abort("write_header")
          /\ csv_buf' \in {csv_buf, Append(csv_buf, HeaderRow)}
          /\ UNCHANGED csv_disk
    /\ UNCHANGED <<variant, run, again, first, todo, cur, reports, report, source, report_html,
                   record, cache, hist>>

\* Client::builder().timeout(..).build()?
BuildClient ==
    /\ pc = "build_client"
    /\ \/ /\ pc' = "next_company"
          /\ UNCHANGED <<exit_err, faults>>
       \/ /\ CanFail
          /\ Abort("build_client")
    /\ UNCHANGED <<variant, run, again, first, todo, cur, reports, report, source, report_html,
                   record, disk, hist>>

\* Drop of the csv::Writer when main() returns: it flushes its buffer and
\* ignores the result.
DropWriter ==
    /\ pc = "drop"
    /\ pc' = "exited"
    /\ \E ok \in BOOLEAN :
          csv_disk' = IF ok THEN csv_disk \o csv_buf ELSE csv_disk
    /\ csv_buf' = << >>
    /\ UNCHANGED <<variant, run, again, first, exit_err, todo, cur, reports, report, source,
                   report_html, record, faults, cache, hist>>

\* for (pib, company_name) in &companies; after the last one main() returns
\* Ok(()).  The HashMap yields the companies in an unspecified order; the
\* companies of the model are interchangeable, so the order is taken to be
\* the order of their indices.
NextCompany ==
    /\ pc = "next_company"
    /\ \/ /\ todo = {}
          /\ pc' = "drop"
          /\ UNCHANGED <<todo, cur>>
       \/ \E e \in todo :
             /\ \A other \in todo : e <= other
             /\ cur' = e
             /\ todo' = todo \ {e}
             /\ pc' = "mkdir"
    /\ reports' = << >>
    /\ report' = NoReport
    /\ source' = "none"
    /\ report_html' = NoDoc
    /\ record' = NoRecord
    /\ UNCHANGED <<variant, run, again, first, exit_err, faults, disk, hist>>

\* main.rs: create_dir_all(company_folder).context(..)?
M_CreateDir ==
    /\ variant = "main"
    /\ pc = "mkdir"
    /\ \/ /\ pc' = "listing"
          /\ UNCHANGED <<exit_err, faults, mkdir_failed>>
       \/ /\ CanFail
          /\ Abort("create_dir")
          /\ mkdir_failed' = mkdir_failed \cup {cur}
    /\ UNCHANGED <<variant, run, again, first, todo, cur, reports, report, source, report_html,
                   record, disk, listing_calls, fetch_calls, slept,
                   unthrottled, delayed, cache_hits, fetch_failed, read_failed, save_failed, sink_failed,
                   cache_writes, appended, listing_bad, listed, listing_of>>

\* specific.rs: match create_dir_all(company_folder) { Err(e) => continue }
S_CreateDir ==
    /\ variant = "specific"
    /\ pc = "mkdir"
    /\ \/ /\ pc' = "listing"
          /\ UNCHANGED <<faults, mkdir_failed>>
       \/ /\ CanFail
          /\ pc' = "next_company"
          /\ faults' = faults + 1
          /\ mkdir_failed' = mkdir_failed \cup {cur}
    /\ UNCHANGED <<variant, run, again, first, exit_err, todo, cur, reports, report, source,
                   report_html, record, disk, listing_calls, fetch_calls,
                   slept, unthrottled, delayed, cache_hits, fetch_failed, read_failed, save_failed,
                   sink_failed, cache_writes, appended, listing_bad, listed, listing_of>>

\* A variant of ListingErrorPc: a failed listing request is sent again.
ListingErrorPc_retry == "listing"

\* Err(e) of the listing request => { error!(..); continue; }
ListingErrorPc == "next_company"

\* The listing request and the parse of its response (the same code in both
\* files).  send() fails, text() fails or the body is not the envelope: the
\* company is skipped.  The status of the response is never looked at.
GetReportList ==
    /\ pc = "listing"
    /\ listing_calls' = [listing_calls EXCEPT ![cur] = @ + 1]
    /\ \/ /\ CanFail
          /\ \E cause \in {"send", "text", "json"} :
                /\ pc' = ListingErrorPc
                /\ faults' = faults + 1
                /\ listing_bad' = listing_bad \cup {cur}
                /\ UNCHANGED <<reports, listed, listing_of>>
       \/ \E status \in HttpStatuses, data \in Listings :
             /\ Len(data) <= MaxReports - listed
             /\ run = 2 => data = listing_of[cur][1]
             /\ listed' = listed + Len(data)
             /\ listing_of' = IF again
                              THEN [listing_of EXCEPT ![cur] = <<data>>]
                              ELSE listing_of
             /\ status # 200 => CanFail
             /\ faults' = IF status = 200 THEN faults ELSE faults + 1
             /\ listing_bad' =
                   IF status = 200 THEN listing_bad ELSE listing_bad \cup {cur}
             /\ reports' = data
             /\ pc' = "next_report"
    /\ UNCHANGED <<variant, run, again, first, exit_err, todo, cur, report, source, report_html,
                   record, disk, fetch_calls, slept, unthrottled, delayed,
                   cache_hits, fetch_failed, read_failed, save_failed, sink_failed, cache_writes,
                   appended, mkdir_failed>>

\* ------------------------------------------------- the statement loop
\* History variables no step of the statement loop but its own touches.
entity_hist == <<listing_calls, mkdir_failed, listing_bad, listed, listing_of>>

\* A content request for the current statement is sent: the history of the
\* throttle is updated.
SendContentRequest ==
    /\ fetch_calls' = [fetch_calls EXCEPT ![Stmt] = @ + 1]
    /\ unthrottled' =
          IF (\E x \in Statements : fetch_calls[x] > 0) /\ ~slept
          THEN unthrottled \cup {Stmt}
          ELSE unthrottled
    /\ slept' = FALSE

\* main.rs: for report in reports { .. }; then csv_writer.flush()?
M_NextReport ==
    /\ variant = "main"
    /\ pc = "next_report"
    /\ \/ /\ reports = << >>
          /\ pc' = "flush_company"
          /\ UNCHANGED <<reports, report>>
       \/ /\ reports # << >>
          /\ report' = Head(reports)
          /\ reports' = Tail(reports)
          /\ pc' = "check_cache"
    /\ source' = "none"
    /\ report_html' = NoDoc
    /\ record' = NoRecord
    /\ UNCHANGED <<variant, run, again, first, exit_err, todo, cur, faults, disk, hist>>

\* specific.rs: for report in details_json.data { .. }
S_NextReport ==
    /\ variant = "specific"
    /\ pc = "next_report"
    /\ \/ /\ reports = << >>
          /\ pc' = "next_company"
          /\ UNCHANGED <<reports, report>>
       \/ /\ reports # << >>
          /\ report' = Head(reports)
          /\ reports' = Tail(reports)
          /\ pc' = "download"
    /\ source' = "none"
    /\ report_html' = NoDoc
    /\ record' = NoRecord
    /\ UNCHANGED <<variant, run, again, first, exit_err, todo, cur, faults, disk, hist>>

\* A variant of ReadErrorPc: a failed read of the local file falls through to
\* the download branch.
ReadErrorPc_download == "download"

\* main.rs: Err(e) of fs::read_to_string => { error!(..); continue; }
ReadErrorPc == "next_report"

\* A variant of M_CheckCache: a local file that cannot be read is removed.
M_CheckCache_remove ==
    /\ variant = "main"
    /\ pc = "check_cache"
    /\ LET path == LocalPath(cur, report.year)
       IN  \/ /\ cache[path] # Absent
              /\ cache_hits' = cache_hits \cup {Stmt}
              /\ \/ /\ report_html' = cache[path][1]
                    /\ source' = "cache"
                    /\ pc' = "extract"
                    /\ UNCHANGED <<faults, read_failed, cache>>
                 \/ /\ CanFail
                    /\ faults' = faults + 1
                    /\ read_failed' = read_failed \cup {Stmt}
                    /\ pc' = ReadErrorPc
                    /\ cache' = [cache EXCEPT ![path] = Absent]
                    /\ UNCHANGED <<report_html, source>>
           \/ /\ cache[path] = Absent
              /\ pc' = "download"
              /\ UNCHANGED <<cache_hits, read_failed, report_html, source,
                             faults, cache>>
    /\ UNCHANGED <<variant, run, again, first, exit_err, todo, cur, reports, report, record, csv_buf, csv_disk,
                   fetch_calls, slept, unthrottled, delayed, fetch_failed, save_failed,
                   sink_failed, cache_writes, appended, entity_hist>>

\* main.rs: if local_file_path.exists() { fs::read_to_string(..) } else ..
M_CheckCache ==
    /\ variant = "main"
    /\ pc = "check_cache"
    /\ LET path == LocalPath(cur, report.year)
       IN  \/ /\ cache[path] # Absent
              /\ cache_hits' = cache_hits \cup {Stmt}
              /\ \/ /\ report_html' = cache[path][1]
                    /\ source' = "cache"
                    /\ pc' = "extract"
                    /\ UNCHANGED <<faults, read_failed>>
                 \/ /\ CanFail
                    /\ faults' = faults + 1
                    /\ read_failed' = read_failed \cup {Stmt}
                    /\ pc' = ReadErrorPc
                    /\ UNCHANGED <<report_html, source>>
           \/ /\ cache[path] = Absent
              /\ pc' = "download"
              /\ UNCHANGED <<cache_hits, read_failed, report_html, source,
                             faults>>
    /\ UNCHANGED <<variant, run, again, first, exit_err, todo, cur, reports, report, record, disk,
                   fetch_calls, slept, unthrottled, delayed, fetch_failed, save_failed,
                   sink_failed, cache_writes, appended, entity_hist>>

\* A variant of M_Download: the Err of the content request is returned from
\* main() with `?`.
M_Download_abort ==
    /\ variant = "main"
    /\ pc = "download"
    /\ SendContentRequest
    /\ \/ /\ CanFail
          /\ \E cause \in {"send", "text"} :
                /\ Abort("download")
                /\ fetch_failed' = fetch_failed \cup {Stmt}
                /\ UNCHANGED <<report_html, source>>
       \/ \E status \in HttpStatuses :
             /\ status # 200 => CanFail
             /\ faults' = IF status = 200 THEN faults ELSE faults + 1
             /\ report_html' = ResponseBody(status)
             /\ source' = "remote"
             /\ pc' = "save"
             /\ UNCHANGED <<fetch_failed, exit_err>>
    /\ UNCHANGED <<variant, run, again, first, todo, cur, reports, report, record, disk,
                   delayed, cache_hits, read_failed, save_failed, sink_failed,
                   cache_writes, appended, entity_hist>>

\* main.rs: client.post(report_url)..send()..and_then(|res| res.text()..):
\* an Err skips the report; an Ok body of any status goes on to be saved.
M_Download ==
    /\ variant = "main"
    /\ pc = "download"
    /\ SendContentRequest
    /\ \/ /\ CanFail
          /\ \E cause \in {"send", "text"} :
                /\ faults' = faults + 1
                /\ fetch_failed' = fetch_failed \cup {Stmt}
                /\ pc' = "next_report"
                /\ UNCHANGED <<report_html, source>>
       \/ \E status \in HttpStatuses :
             /\ status # 200 => CanFail
             /\ faults' = IF status = 200 THEN faults ELSE faults + 1
             /\ report_html' = ResponseBody(status)
             /\ source' = "remote"
             /\ pc' = "save"
             /\ UNCHANGED fetch_failed
    /\ UNCHANGED <<variant, run, again, first, exit_err, todo, cur, reports, report, record, disk,
                   delayed, cache_hits, read_failed, save_failed, sink_failed,
                   cache_writes, appended, entity_hist>>

\* main.rs: fs::write is File::create (the file exists, empty) followed by
\* write_all: while it runs the file holds a proper prefix of the markup.
M_SaveBegin ==
    /\ variant = "main"
    /\ pc = "save"
    /\ \E d \in Prefixes(report_html) :
          cache' = [cache EXCEPT ![LocalPath(cur, report.year)] = File(d)]
    /\ cache_writes' = cache_writes \cup {Stmt}
    /\ pc' = "saving"
    /\ UNCHANGED <<variant, run, again, first, exit_err, todo, cur, reports, report,
                   source, report_html, record, faults, csv_buf, csv_disk,
                   fetch_calls, slept, unthrottled, delayed, cache_hits,
                   fetch_failed, read_failed, save_failed, sink_failed,
                   appended, entity_hist>>

\* A variant of M_Save: the Err of fs::write is returned from main() with `?`.
M_Save_abort ==
    /\ variant = "main"
    /\ pc \in {"save", "saving"}
    /\ LET path == LocalPath(cur, report.year)
       IN  /\ cache_writes' = cache_writes \cup {Stmt}
           /\ \/ /\ cache' = [cache EXCEPT ![path] = File(report_html)]
                 /\ pc' = "extract"
                 /\ UNCHANGED <<faults, save_failed, exit_err>>
              \/ /\ CanFail
                 /\ Abort("save")
                 /\ save_failed' = save_failed \cup {Stmt}
                 /\ \E left \in {cache[path]} \cup {File(d) : d \in Prefixes(report_html)} :
                       cache' = [cache EXCEPT ![path] = left]
    /\ UNCHANGED <<variant, run, again, first, todo, cur, reports, report,
                   source, report_html, record, csv_buf, csv_disk, fetch_calls,
                   slept, unthrottled, delayed, cache_hits, fetch_failed,
                   read_failed, sink_failed, appended, entity_hist>>

\* main.rs: if let Err(e) = fs::write(local_file_path, &html) { warn!(..) }
M_Save ==
    /\ variant = "main"
    /\ pc \in {"save", "saving"}
    /\ LET path == LocalPath(cur, report.year)
       IN  /\ cache_writes' = cache_writes \cup {Stmt}
           /\ \/ /\ cache' = [cache EXCEPT ![path] = File(report_html)]
                 /\ UNCHANGED <<faults, save_failed>>
              \/ /\ CanFail
                 /\ faults' = faults + 1
                 /\ save_failed' = save_failed \cup {Stmt}
                 /\ \E left \in {cache[path]} \cup {File(d) : d \in Prefixes(report_html)} :
                       cache' = [cache EXCEPT ![path] = left]
    /\ pc' = "extract"
    /\ UNCHANGED <<variant, run, again, first, exit_err, todo, cur, reports, report, source,
                   report_html, record, csv_buf, csv_disk, fetch_calls, slept,
                   unthrottled, delayed, cache_hits, fetch_failed, read_failed, sink_failed,
                   appended, entity_hist>>

\* A variant of Extract: a statement whose total income cannot be extracted is
\* skipped (`continue`) instead of being written with zeros.
Extract_skip_miss ==
    /\ pc = "extract"
    /\ IF TotalIncome(report_html) = 0
       THEN /\ pc' = "next_report"
            /\ UNCHANGED record
       ELSE /\ pc' = "serialize"
            /\ record' = [kind |-> "record", name |-> cur, year |-> report.year,
                          rbr |-> report.fin_statement_number,
                          fields |-> ExtractFields(report_html)]
    /\ UNCHANGED <<variant, run, again, first, exit_err, todo, cur, reports,
                   report, source, report_html, faults, disk, hist>>

\* Both files: the five parse_html_value calls, the metric and the CsvRecord.
\* (rbr is not a CSV column: it tells the rows of one company apart.)
Extract ==
    /\ pc = "extract"
    /\ record' = [kind |-> "record", name |-> cur, year |-> report.year,
                  rbr |-> report.fin_statement_number,
                  fields |-> ExtractFields(report_html)]
    /\ pc' = "serialize"
    /\ UNCHANGED <<variant, run, again, first, exit_err, todo, cur, reports, report, source,
                   report_html, faults, disk, hist>>

\* A variant of M_Serialize: a serialize that returned Err has left the row in
\* the writer's buffer all the same.
M_Serialize_keeps_row ==
    /\ variant = "main"
    /\ pc = "serialize"
    /\ csv_buf' = Append(csv_buf, record)
    /\ \/ /\ appended' = appended \cup {Stmt}
          /\ UNCHANGED <<faults, sink_failed>>
       \/ /\ CanFail
          /\ faults' = faults + 1
          /\ sink_failed' = sink_failed \cup {Stmt}
          /\ UNCHANGED appended
    /\ pc' = "sleep"
    /\ UNCHANGED <<variant, run, again, first, exit_err, todo, cur, reports,
                   report, source, report_html, record, cache, csv_disk,
                   fetch_calls, slept, unthrottled, delayed, cache_hits,
                   fetch_failed, read_failed, save_failed, cache_writes,
                   entity_hist>>

\* main.rs: if let Err(e) = csv_writer.serialize(record) { error!(..) }
M_Serialize ==
    /\ variant = "main"
    /\ pc = "serialize"
    /\ \/ /\ csv_buf' = Append(csv_buf, record)
          /\ appended' = appended \cup {Stmt}
          /\ UNCHANGED <<faults, sink_failed>>
       \/ /\ CanFail
          /\ faults' = faults + 1
          /\ sink_failed' = sink_failed \cup {Stmt}
          /\ UNCHANGED <<csv_buf, appended>>
    /\ pc' = "sleep"
    /\ UNCHANGED <<variant, run, again, first, exit_err, todo, cur, reports, report, source,
                   report_html, record, cache, csv_disk, fetch_calls, slept,
                   unthrottled, delayed, cache_hits, fetch_failed, read_failed, save_failed,
                   cache_writes, entity_hist>>

\* main.rs: thread::sleep(Duration::from_millis(200)) at the end of the body.
M_Sleep ==
    /\ variant = "main"
    /\ pc = "sleep"
    /\ slept' = TRUE
    /\ delayed' = delayed \cup {Stmt}
    /\ pc' = "next_report"
    /\ UNCHANGED <<ctl_but_pc, disk, fetch_calls, unthrottled, cache_hits,
                   fetch_failed, read_failed, save_failed, sink_failed, cache_writes, appended,
                   entity_hist>>

\* A variant of M_FlushCompany: the flush after the reports of a company is
\* left out.
M_FlushCompany_none ==
    /\ variant = "main"
    /\ pc = "flush_company"
    /\ pc' = "next_company"
    /\ UNCHANGED <<variant, run, again, first, exit_err, faults, todo, cur, reports, report,
                   source, report_html, record, disk, hist>>

\* main.rs: csv_writer.flush()? after the reports of one company.
M_FlushCompany ==
    /\ variant = "main"
    /\ pc = "flush_company"
    /\ \/ /\ csv_disk' = csv_disk \o csv_buf
          /\ csv_buf' = << >>
          /\ pc' = "next_company"
          /\ UNCHANGED <<exit_err, faults>>
       \/ /\ CanFail
          /\ Abort("flush_company")
          /\ UNCHANGED <<csv_buf, csv_disk>>
    /\ UNCHANGED <<variant, run, again, first, todo, cur, reports, report, source, report_html,
                   record, cache, hist>>

\* specific.rs: client.get(report_url)..send() and report_response.text():
\* each Err skips the report; there is no look at the local files.
S_Fetch ==
    /\ variant = "specific"
    /\ pc = "download"
    /\ SendContentRequest
    /\ \/ /\ CanFail
          /\ \E cause \in {"send", "text"} :
                /\ faults' = faults + 1
                /\ fetch_failed' = fetch_failed \cup {Stmt}
                /\ pc' = "next_report"
                /\ UNCHANGED <<report_html, source>>
       \/ \E status \in HttpStatuses :
             /\ status # 200 => CanFail
             /\ faults' = IF status = 200 THEN faults ELSE faults + 1
             /\ report_html' = ResponseBody(status)
             /\ source' = "remote"
             /\ pc' = "extract"
             /\ UNCHANGED fetch_failed
    /\ UNCHANGED <<variant, run, again, first, exit_err, todo, cur, reports, report, record, disk,
                   delayed, cache_hits, read_failed, save_failed, sink_failed,
                   cache_writes, appended, entity_hist>>

\* specific.rs: csv_writer.serialize(&record)?
S_Serialize ==
    /\ variant = "specific"
    /\ pc = "serialize"
    /\ \/ /\ csv_buf' = Append(csv_buf, record)
          /\ appended' = appended \cup {Stmt}
          /\ pc' = "flush_record"
          /\ UNCHANGED <<exit_err, faults, sink_failed>>
       \/ /\ CanFail
          /\ Abort("serialize")
          /\ sink_failed' = sink_failed \cup {Stmt}
          /\ UNCHANGED <<csv_buf, appended>>
    /\ UNCHANGED <<variant, run, again, first, todo, cur, reports, report, source, report_html,
                   record, cache, csv_disk, fetch_calls, slept, unthrottled,
                   delayed, cache_hits, fetch_failed, read_failed, save_failed, cache_writes,
                   entity_hist>>

\* specific.rs: csv_writer.flush()? after each record.
S_FlushRecord ==
    /\ variant = "specific"
    /\ pc = "flush_record"
    /\ \/ /\ csv_disk' = csv_disk \o csv_buf
          /\ csv_buf' = << >>
          /\ pc' = "save_html"
          /\ UNCHANGED <<exit_err, faults, sink_failed>>
       \/ /\ CanFail
          /\ Abort("flush_record")
          /\ sink_failed' = sink_failed \cup {Stmt}
          /\ UNCHANGED <<csv_buf, csv_disk>>
    /\ UNCHANGED <<variant, run, again, first, todo, cur, reports, report, source, report_html,
                   record, cache, fetch_calls, slept, unthrottled, delayed,
                   cache_hits, fetch_failed, read_failed, save_failed, cache_writes, appended, entity_hist>>

\* specific.rs: match fs::write(&html_path, &report_content) { .. } after the
\* row is written; the file is overwritten when it exists.
S_SaveHtml ==
    /\ variant = "specific"
    /\ pc = "save_html"
    /\ LET path == LocalPath(cur, report.year)
       IN  /\ cache_writes' = cache_writes \cup {Stmt}
           /\ \/ /\ cache' = [cache EXCEPT ![path] = File(report_html)]
                 /\ UNCHANGED <<faults, save_failed>>
              \/ /\ CanFail
                 /\ faults' = faults + 1
                 /\ save_failed' = save_failed \cup {Stmt}
                 /\ \E left \in {cache[path]} \cup {File(d) : d \in Prefixes(report_html)} :
                       cache' = [cache EXCEPT ![path] = left]
    /\ pc' = "sleep"
    /\ UNCHANGED <<variant, run, again, first, exit_err, todo, cur, reports, report, source,
                   report_html, record, csv_buf, csv_disk, fetch_calls, slept,
                   unthrottled, delayed, cache_hits, fetch_failed, read_failed, sink_failed,
                   appended, entity_hist>>

\* specific.rs: thread::sleep(Duration::from_secs(1)) at the end of the body.
S_Sleep ==
    /\ variant = "specific"
    /\ pc = "sleep"
    /\ slept' = TRUE
    /\ delayed' = delayed \cup {Stmt}
    /\ pc' = "next_report"
    /\ UNCHANGED <<ctl_but_pc, disk, fetch_calls, unthrottled, cache_hits,
                   fetch_failed, read_failed, save_failed, sink_failed, cache_writes, appended,
                   entity_hist>>

Next ==
    \/ CreateCsv \/ WriteHeader \/ BuildClient \/ DropWriter \/ NextCompany
    \/ M_CreateDir \/ S_CreateDir \/ GetReportList
    \/ M_NextReport \/ S_NextReport
    \/ M_CheckCache \/ M_Download \/ M_SaveBegin \/ M_Save \/ Extract \/ M_Serialize
    \/ M_Sleep \/ M_FlushCompany
    \/ S_Fetch \/ S_Serialize \/ S_FlushRecord \/ S_SaveHtml \/ S_Sleep

Spec == Init /\ [][Next]_vars

\* ------------------------------------------------ main.rs run a second time
\* The program of main.rs is started again after a run that returned Ok(()):
\* the portal lists for every company what it listed in the first run, and the
\* local file of every listed statement exists.  What the first run left is
\* kept in `first`; the history of the run starts afresh.  The
\* listings are remembered (listing_of) only in a run that is to be followed
\* by another.
Rerun ==
    /\ variant = "main"
    /\ FinishedOk
    /\ again
    /\ again' = FALSE
    /\ \A e \in Entities :
          /\ listing_of[e] # << >>
          /\ \A i \in 1..Len(listing_of[e][1]) :
                cache[LocalPath(e, listing_of[e][1][i].year)] # Absent
    /\ run' = 2
    /\ first' = [cache |-> cache, rows |-> csv_disk]
    /\ pc' = "create_csv"
    /\ todo' = Entities
    /\ cur' = 0
    /\ listing_calls' = [e \in Entities |-> 0]
    /\ fetch_calls' = [x \in Statements |-> 0]
    /\ slept' = FALSE
    /\ unthrottled' = {}
    /\ delayed' = {}
    /\ cache_hits' = {}
    /\ fetch_failed' = {}
    /\ read_failed' = {}
    /\ save_failed' = {}
    /\ sink_failed' = {}
    /\ cache_writes' = {}
    /\ appended' = {}
    /\ mkdir_failed' = {}
    /\ listing_bad' = {}
    /\ listed' = 0
    /\ UNCHANGED <<variant, exit_err, reports, report, source, report_html,
                   record, faults, disk, listing_of>>

\* A run of main.rs that is followed by a second run.
InitRerun == Start({"main"}, TRUE)

NextRerun ==
    \/ CreateCsv \/ WriteHeader \/ BuildClient \/ DropWriter \/ NextCompany
    \/ M_CreateDir \/ GetReportList \/ M_NextReport
    \/ M_CheckCache \/ M_Download \/ M_SaveBegin \/ M_Save \/ Extract
    \/ M_Serialize \/ M_Sleep \/ M_FlushCompany
    \/ Rerun

SpecRerun == InitRerun /\ [][NextRerun]_vars

\* ------------------------------------------- the extraction on its own
\* The extraction of one statement applied to every document of Docs.
InitExtract ==
    /\ variant \in {"main", "specific"}
    /\ run = 1
    /\ again = FALSE
    /\ first = NoFirstRun
    /\ pc = "extract"
    /\ exit_err = "none"
    /\ todo = {}
    /\ cur = 1
    /\ reports = << >>
    /\ report = [fin_statement_number |-> 1, year |-> "2022"]
    /\ source = "remote"
    /\ report_html \in Docs
    /\ record = NoRecord
    /\ cache = [p \in Paths |-> Absent]
    /\ csv_buf = << >>
    /\ csv_disk = <<HeaderRow>>
    /\ faults = 0
    /\ listing_calls = [e \in Entities |-> IF e = 1 THEN 1 ELSE 0]
    /\ fetch_calls = [x \in Statements |-> IF x = <<1, 1>> THEN 1 ELSE 0]
    /\ slept = FALSE
    /\ unthrottled = {}
    /\ delayed = {}
    /\ cache_hits = {}
    /\ fetch_failed = {}
    /\ read_failed = {}
    /\ save_failed = {}
    /\ sink_failed = {}
    /\ cache_writes = {}
    /\ appended = {}
    /\ mkdir_failed = {}
    /\ listing_bad = {}
    /\ listed = 1
    /\ listing_of = [e \in Entities |-> << >>]

NextExtract == Extract

SpecExtract == InitExtract /\ [][NextExtract]_vars

\* ---------------------------------------------------------- properties

\* C1: in main.rs a statement whose local file existed when it was processed
\* is never requested from the portal, whether the file could be read or not.
C1_CacheHitNeverFetched ==
    \A x \in cache_hits : fetch_calls[x] = 0

\* C1 witness: a run of main.rs ended in which a statement was a cache hit and
\* another one was downloaded.
C1_Witness ==
    /\ variant = "main"
    /\ FinishedOk
    /\ cache_hits # {}
    /\ \E y \in Statements : fetch_calls[y] > 0

\* C2: between two consecutive content requests the delay ran at least once,
\* also when the earlier request failed and its statement was skipped.
C2_ThrottleBetweenFetches ==
    unthrottled = {}

\* C3: in main.rs the delay does not run for a statement served from the
\* local file.
C3_NoDelayOnCacheHit ==
    variant = "main" => delayed \cap cache_hits = {}

\* C4: total income is first-match-wins: when the original pattern matches,
\* the result is its capture (0 when the capture does not parse), and the new
\* pattern's capture is used only when the original pattern does not match.
C4_FirstMatchWins ==
    pc = "serialize" =>
        LET original == RE_TOTAL_INCOME_ORIGINAL(report_html)
        IN  record.fields.total_income =
               IF original # NoMatch
               THEN (IF ParseI64(original) = << >> THEN 0
                     ELSE ParseI64(original)[1])
               ELSE parse_html_value(RE_TOTAL_INCOME_NEW(report_html))

\* C5: a company whose directory could not be created is skipped and nothing
\* else: no listing request and no row for it, and the run is not ended by it.
C5_MkdirFailureSkipsEntity ==
    \A e \in mkdir_failed :
        /\ listing_calls[e] = 0
        /\ \A x \in StatementsOf(e) : ~HasRow(AllRows, x)
        /\ exit_err # "create_dir"

\* C6: a CSV write or flush failure for one statement ends only that
\* statement: main() does not return because of it.
C6_SinkFailureSkipsStatement ==
    sink_failed # {} => exit_err \notin {"serialize", "flush_record"}

\* C7: in main.rs a statement whose content request failed gets no row and no
\* local file is written for it, and when statements of the company remain the
\* loop is at its head to go on with them.
C7_FetchFailureSkipsStatement ==
    variant = "main" =>
        \A x \in fetch_failed :
            /\ ~HasRow(AllRows, x)
            /\ x \notin cache_writes
            /\ x \notin appended
            /\ (x = Stmt /\ reports # << >>) =>
                   (pc = "next_report" /\ exit_err = "none")

\* C7 witness: in main.rs the content request of one statement failed and a
\* later statement of the same company got as far as its row.
C7_Witness ==
    /\ variant = "main"
    /\ pc = "sleep"
    /\ Stmt \in appended
    /\ \E x \in fetch_failed : x[1] = cur /\ x # Stmt

\* C8: a listing response that is non-2xx, not the envelope, or a transport
\* error is a listing failure: no content request, no local file and no row
\* for the company.
C8_ListingFailureSkipsEntity ==
    variant = "main" =>
        \A e \in listing_bad :
            \A x \in StatementsOf(e) :
                /\ fetch_calls[x] = 0
                /\ x \notin cache_writes
                /\ ~HasRow(AllRows, x)

\* C9 as stated: in a run that ends normally every company of the registry
\* got exactly one listing request.
C9_ExactlyOneListingCall ==
    FinishedOk => \A e \in Entities : listing_calls[e] = 1

\* C9 as amended: at most one listing request per company (never one per
\* statement); in a run that ends normally exactly one for each company whose
\* directory was created and none for a company skipped at create_dir_all.
C9_AtMostOneListingCall ==
    \A e \in Entities :
        /\ listing_calls[e] <= 1
        /\ FinishedOk =>
              listing_calls[e] = (IF e \in mkdir_failed THEN 0 ELSE 1)

\* C9 witness: a run ended normally in which one company was skipped at
\* create_dir_all and another company listed more than one statement.
C9_Witness ==
    /\ FinishedOk
    /\ mkdir_failed # {}
    /\ \E e \in Entities : listing_calls[e] = 1
    /\ listed > 1

\* C10 as stated: in main.rs, wherever the process is terminated, every row
\* appended before the row of the statement in progress is in the file.
C10_LosesAtMostInFlightRow ==
    (variant = "main" /\ pc \notin {"drop", "exited"}) =>
        \A x \in appended : x # Stmt => HasRow(csv_disk, x)

\* C10 as amended: in main.rs, wherever the process is terminated, every row
\* appended for a company other than the one in progress is in the file: the
\* rows a termination can lose are rows of the company in progress.
C10_LosesAtMostCurrentCompany ==
    (variant = "main" /\ pc \notin {"drop", "exited"}) =>
        \A x \in appended : x[1] # cur => HasRow(csv_disk, x)

\* C10 witness: main.rs is at a point where a row of a finished company is in
\* the file and a row of the company in progress is only in the buffer.
C10_Witness ==
    /\ variant = "main"
    /\ pc \notin {"drop", "exited"}
    /\ \E x \in appended : x[1] # cur /\ HasRow(csv_disk, x)
    /\ \E y \in appended : y[1] = cur /\ HasRow(csv_buf, y) /\ ~HasRow(csv_disk, y)

\* The contents a whole statement response can have.
WholeBodies == {ResponseBody(status) : status \in HttpStatuses}

\* C11: in main.rs every local statement file that exists holds a complete
\* response body at every point at which the process can be terminated, and
\* the file of a statement downloaded in this iteration is absent or holds the
\* whole downloaded markup.
C11_CacheWholeOrAbsent ==
    variant = "main" =>
        /\ \A p \in Paths : cache[p] # Absent => cache[p][1] \in WholeBodies
        /\ (source = "remote" /\ pc \in {"save", "saving", "extract", "serialize", "sleep"}) =>
               cache[LocalPath(cur, report.year)] \in {Absent, File(report_html)}

\* C12: in both programs a statement that is not served from a local file is
\* requested from the portal once, and fs::write of the response body to the
\* statement's path has been called before the markup reaches the extraction
\* and before its row is appended.
C12_FetchOnceSaveBeforeRow ==
    /\ \A x \in Statements : fetch_calls[x] <= 1
    /\ (source = "remote" /\ pc \in {"extract", "serialize", "flush_record"}) =>
           Stmt \in cache_writes
    /\ \A x \in appended : fetch_calls[x] > 0 => x \in cache_writes

\* C13: the statement in progress and every statement of the same listing
\* still to come have different local file paths, and in main.rs no statement
\* is served from a file that the run wrote for another statement.
C13_PathsCollisionFree ==
    /\ report # NoReport =>
          \A i \in 1..Len(reports) :
              LocalPath(cur, reports[i].year) # LocalPath(cur, report.year)
    /\ variant = "main" =>
          \A x \in cache_hits : \A y \in cache_writes :
              (x[1] = y[1] /\ x # y) =>
                  \A i, j \in 1..Len(AllRows) :
                      (/\ AllRows[i].kind = "record" /\ AllRows[j].kind = "record"
                       /\ <<AllRows[i].name, AllRows[i].rbr>> = x
                       /\ <<AllRows[j].name, AllRows[j].rbr>> = y) =>
                          AllRows[i].year # AllRows[j].year

\* C14: when main.rs is run again against the listings of the first run and
\* local files for all listed statements, no local file differs from what the
\* first run left, no content request is sent, and every statement's row
\* carries the values of its row of the first run.
C14_RerunIdempotent ==
    run = 2 =>
        /\ cache = first.cache
        /\ \A x \in Statements : fetch_calls[x] = 0
        /\ \A i \in 1..Len(AllRows) : \A j \in 1..Len(first.rows) :
              (/\ AllRows[i].kind = "record"
               /\ first.rows[j].kind = "record"
               /\ AllRows[i].name = first.rows[j].name
               /\ AllRows[i].rbr = first.rows[j].rbr) =>
                  AllRows[i].fields = first.rows[j].fields

\* ------------------------------------------- diagnostics of the extraction
FieldNames == {"total_income", "profit", "employee_count", "net_pay_costs"}

\* The captures of the patterns of each field, in the order they are tried.
FieldRules(doc) ==
    [total_income |-> {RE_TOTAL_INCOME_ORIGINAL(doc), RE_TOTAL_INCOME_NEW(doc)},
     profit |-> {RE_PROFIT(doc)},
     employee_count |-> {RE_EMPLOYEE_COUNT(doc)},
     net_pay_costs |-> {RE_NET_PAY_COSTS(doc)}]

\* main.rs: the fields a warn! names while the values are extracted: only
\* totalIncome, when the original pattern's value is 0.
M_Warnings(doc) ==
    IF parse_html_value(RE_TOTAL_INCOME_ORIGINAL(doc)) = 0
    THEN {"total_income"}
    ELSE {}

\* specific.rs: warn! for total income when both patterns give 0 and for
\* profit when it is 0; the other values are logged at debug level only.
S_Warnings(doc) ==
    (IF TotalIncome(doc) = 0 THEN {"total_income"} ELSE {})
    \cup (IF parse_html_value(RE_PROFIT(doc)) = 0 THEN {"profit"} ELSE {})

Warnings(v, doc) == IF v = "main" THEN M_Warnings(doc) ELSE S_Warnings(doc)

\* C15: for each of the four fields, when none of the field's patterns matches
\* the document the field of the record is 0 and a warning naming the field
\* was logged.
C15_MissIsZeroAndWarned ==
    pc = "serialize" =>
        \A f \in FieldNames :
            FieldRules(report_html)[f] = {NoMatch} =>
                /\ record.fields[f] = 0
                /\ f \in Warnings(variant, report_html)

\* No pattern of any field matches the document.
NoRuleMatches(doc) == \A f \in FieldNames : FieldRules(doc)[f] = {NoMatch}
ZeroFields ==
    [total_income |-> 0, profit |-> 0, employee_count |-> 0,
     net_pay_costs |-> 0, average_pay |-> <<0, 1>>]
\* The positions of the rows of statement x.
RowsOf(rows, x) ==
    {i \in 1..Len(rows) :
        rows[i].kind = "record" /\ rows[i].name = x[1] /\ rows[i].rbr = x[2]}

\* C16: in main.rs a statement whose markup no pattern matches is not skipped
\* and does not end the run: its record has the four values 0 and averagePay
\* 0, and once csv_writer.serialize has run (and did not fail) exactly one row
\* of the statement is in the output, with these zeros.
C16_ExtractionMissStillAppends ==
    (variant = "main" /\ source # "none" /\ NoRuleMatches(report_html)) =>
        /\ exit_err = "none"
        /\ pc \in {"save", "saving", "extract", "serialize", "sleep", "next_report"}
        /\ pc = "serialize" => record.fields = ZeroFields
        /\ pc \in {"sleep", "next_report"} =>
              \/ Stmt \in sink_failed
              \/ /\ Cardinality(RowsOf(AllRows, Stmt)) = 1
                 /\ \A i \in RowsOf(AllRows, Stmt) : AllRows[i].fields = ZeroFields

\* C16 witness: main.rs downloaded a document that no pattern matches and the
\* row of zeros of the statement is in the writer's buffer.
C16_Witness ==
    /\ variant = "main"
    /\ pc = "sleep"
    /\ source = "remote"
    /\ NoRuleMatches(report_html)
    /\ RowsOf(csv_buf, Stmt) # {}
    /\ \A i \in RowsOf(csv_buf, Stmt) : csv_buf[i].fields = ZeroFields

\* C17: within one run of main.rs the output holds at most one row for each
\* statement of each company, and no row for a statement that was skipped
\* (its content request failed, its local file could not be read, or its
\* serialize failed).
C17_AtMostOneRowPerStatement ==
    variant = "main" =>
        \A x \in Statements :
            /\ Cardinality(RowsOf(AllRows, x)) <= 1
            /\ x \in (fetch_failed \cup read_failed \cup sink_failed) =>
                   RowsOf(AllRows, x) = {}

\* C17 witness: a run of main.rs ended normally with a row for one statement
\* and none for another statement, which was skipped.
C17_Witness ==
    /\ variant = "main"
    /\ FinishedOk
    /\ \E x \in appended : Cardinality(RowsOf(csv_disk, x)) = 1
    /\ \E y \in (fetch_failed \cup read_failed \cup sink_failed) :
          RowsOf(AllRows, y) = {}

\* C18: in main.rs a statement whose fs::write failed after a successful
\* download is carried on with: main() does not return, the record is built
\* from the downloaded markup, the statement reaches csv_writer.serialize, and
\* afterwards the loop goes on with the statements that remain.
C18_CacheWriteFailureNonFatal ==
    variant = "main" =>
        \A x \in save_failed :
            IF x = Stmt /\ source = "remote"
            THEN /\ exit_err = "none"
                 /\ pc \in {"extract", "serialize", "sleep", "next_report"}
                 /\ pc = "serialize" =>
                       record.fields = ExtractFields(report_html)
                 /\ pc \in {"sleep", "next_report"} =>
                       x \in appended \cup sink_failed
            ELSE /\ x \in appended \cup sink_failed
                 /\ exit_err # "save"

\* C18 witness: in main.rs the row of a statement whose fs::write failed is in
\* the output and the loop is at the local-file check of a later statement.
C18_Witness ==
    /\ variant = "main"
    /\ pc = "check_cache"
    /\ \E x \in save_failed \cap appended : x # Stmt /\ HasRow(AllRows, x)

\* C19: averagePay of the record is netPayCosts / employeeCount / 12 when
\* employeeCount > 0 and 0 otherwise: 0 for employeeCount 0 whatever
\* netPayCosts is, and 1000 for employeeCount 12 and netPayCosts 144000.
\* (averagePay is the fraction <<numerator, denominator>>.)
C19_AveragePay ==
    pc = "serialize" =>
        LET f == record.fields
        IN  /\ f.average_pay[2] > 0
            /\ f.employee_count > 0 =>
                  f.average_pay = <<f.net_pay_costs, f.employee_count * 12>>
            /\ f.employee_count = 0 => f.average_pay[1] = 0
            /\ (f.employee_count = 12 /\ f.net_pay_costs = 144000) =>
                  f.average_pay[1] = 1000 * f.average_pay[2]

\* C19 witness: a record with employeeCount 12 and netPayCosts 144000 was built.
C19_Witness ==
    /\ pc = "serialize"
    /\ record.fields.employee_count = 12
    /\ record.fields.net_pay_costs = 144000
    /\ record.fields.average_pay[1] = 1000 * record.fields.average_pay[2]

\* The positions of the header rows.
HeadersOf(rows) == {i \in 1..Len(rows) : rows[i].kind = "header"}

\* C20: the header is written once per run and is the first row: the output
\* never holds a second header or a header after another row, and from the
\* moment the header step is passed (so before any company is processed, and
\* at the end of a run that appended no row) it is the first row of the file.
C20_HeaderOnceAndFirst ==
    /\ HeadersOf(AllRows) \subseteq {1}
    /\ (pc \notin {"create_csv", "write_header"}
            /\ exit_err \notin {"create_csv", "write_header"}) =>
           (Len(csv_disk) >= 1 /\ csv_disk[1].kind = "header")
    /\ cur # 0 => HeadersOf(csv_disk) = {1}

\* C20 witness: a run ended normally in which every company was listed and no
\* row was appended: the file holds the header and nothing else.
C20_Witness ==
    /\ FinishedOk
    /\ \A e \in Entities : listing_calls[e] = 1
    /\ appended = {}
    /\ Len(csv_disk) = 1
    /\ HeadersOf(csv_disk) = {1}

\* C21: in main.rs the body of a statement-content response whose status is
\* not 2xx is never written to the statement's local file: for such a
\* response fs::write is not called and the path stays without a file.
C21_OnlySuccessBodiesCached ==
    (/\ variant = "main"
     /\ source = "remote"
     /\ report_html \notin {ResponseBody(s) : s \in HttpStatuses \cap (200..299)}) =>
        /\ Stmt \notin cache_writes
        /\ cache[LocalPath(cur, report.year)] = Absent

\* C22: in main.rs a statement whose local file exists and cannot be read is
\* skipped: no content request is sent for it, fs::write is not called for
\* it, it gets no row, the step that fails to read changes neither the local
\* files nor the output, and when statements of the company remain the loop is
\* at its head to go on with them.
C22_UnreadableFileSkipsStatement ==
    /\ [](variant = "main" =>
            \A x \in read_failed :
                /\ fetch_calls[x] = 0
                /\ x \notin cache_writes
                /\ x \notin appended
                /\ RowsOf(AllRows, x) = {}
                /\ (x = Stmt /\ reports # << >>) =>
                       (pc = "next_report" /\ exit_err = "none"))
    /\ [][(variant = "main" /\ read_failed' # read_failed) =>
              (/\ cache' = cache
               /\ csv_buf' = csv_buf
               /\ csv_disk' = csv_disk
               /\ fetch_calls' = fetch_calls)]_vars

\* C22 witness: in main.rs the local file of one statement could not be read
\* and a later statement of the same company got as far as its row.
C22_Witness ==
    /\ variant = "main"
    /\ pc = "sleep"
    /\ Stmt \in appended
    /\ \E x \in read_failed : x[1] = cur /\ x # Stmt

====
